---- MODULE Spec2Model ----
(***************************************************************************)
(* Model of asyncdef.emitter.Emitter (src/asyncdef/emitter/emitter.py).    *)
(*                                                                         *)
(* The emitter is synchronous and reentrant: emit() calls listeners        *)
(* inline, and a listener may call on/once/remove/emit again before it     *)
(* returns.  The model keeps the Python call stack explicitly (stack) and  *)
(* lets the running user code (the top-level caller when the stack is      *)
(* empty, the listener being invoked otherwise) choose any public call,    *)
(* return, raise, or catch an exception raised by a call it made.          *)
(***************************************************************************)
EXTENDS Integers, Sequences, FiniteSets, TLC

\* ---------------------------------------------------------------- bounds
MaxOps == 4

\* Event names: one event of the application and the three built-in events
\* of the class docstring.
Lifecycle == {"error", "new_listener", "remove_listener"}

Events == {"e"} \cup Lifecycle

\* Callables the callers register.
Funcs == {"f", "g"}

\* The calls user code makes, as (event, listener) pairs: the application
\* event takes every callable through every call, the built-in events are
\* observed by one plain listener.
OnInputs == ({"e"} \X Funcs) \cup (Lifecycle \X {"f"})

OnceInputs == {"e"} \X Funcs

RemoveInputs == {"e"} \X Funcs

EmitInputs == {"e", "error"}

\* ------------------------------------------------------------ data values
\* A callable value: a plain function (once = 0) or a _Once wrapper object
\* (once = identity of the wrapper, func = wrapped function).
Plain(f) == [func |-> f, once |-> 0]

Once(f, id) == [func |-> f, once |-> id]

\* The tombstone written over an invoked _Once slot.
None == [func |-> "None", once |-> 0]

IsOnce(l) == l.once > 0

\* listener.func if isinstance(listener, _Once) else listener
Raw(l) == IF IsOnce(l) THEN Plain(l.func) ELSE l

NoExc == [type |-> "none", event |-> "", func |-> ""]

\* The exception object a listener body raises.
Raised(ev, f) == [type |-> "Raised", event |-> ev, func |-> f]

\* Calling None: TypeError('NoneType' object is not callable).
TypeError(ev) == [type |-> "TypeError", event |-> ev, func |-> ""]

\* List assignment index out of range.
IndexError(ev) == [type |-> "IndexError", event |-> ev, func |-> ""]

\* Positional arguments of an emit call.
UserArgs == [tag |-> "user", ev |-> "", l |-> None, x |-> NoExc]

NewListenerArgs(ev, l) == [tag |-> "new_listener", ev |-> ev, l |-> l, x |-> NoExc]

RemoveListenerArgs(ev, l) == [tag |-> "remove_listener", ev |-> ev, l |-> l, x |-> NoExc]

ErrorArgs(ev, x) == [tag |-> "error", ev |-> ev, l |-> None, x |-> x]

NoRet == [op |-> "", event |-> "", val |-> "", x |-> NoExc]

Returned(op, ev, val) == [op |-> op, event |-> ev, val |-> val, x |-> NoExc]

Threw(op, ev, x) == [op |-> op, event |-> ev, val |-> "raise", x |-> x]

\* ------------------------------------------------------------------ state
VARIABLES
    events,     \* self._events: event -> list of listeners
    removals,   \* self._removals: event -> queued removals
    additions,  \* self._additions: event -> queued additions
    emitting,   \* self._emitting: list of event names
    stack,      \* Python call stack of emitter frames, innermost last
    exc,        \* exception in flight towards the top frame, or NoExc
    ret,        \* outcome of the last public call that came back to user code
    nOnce,      \* number of _Once objects created
    onceCalls,  \* _Once identity -> number of _Once.__call__ invocations
    fired,      \* the last emit call made: its event, arguments, found listeners
    ops         \* number of public calls made by user code since the initial state

vars == <<events, removals, additions, emitting, stack, exc, ret, nOnce, onceCalls, fired, ops>>

\* --------------------------------------------------------------- helpers
Range(s) == {s[i] : i \in 1..Len(s)}

RemoveAt(s, i) == SubSeq(s, 1, i - 1) \o SubSeq(s, i + 1, Len(s))

\* list(filter(bool, lst)): functions and _Once objects are truthy, None is not.
RECURSIVE FilterBool(_)
FilterBool(s) ==
    IF s = <<>> THEN <<>>
    ELSE IF Head(s) = None THEN FilterBool(Tail(s))
         ELSE <<Head(s)>> \o FilterBool(Tail(s))

\* Offsets (1-based) of the entries whose raw callable equals l.
Matches(lst, l) == {i \in 1..Len(lst) : Raw(lst[i]) = l}

Min(S) == CHOOSE m \in S : \A n \in S : m <= n

Max(S) == CHOOSE m \in S : \A n \in S : m >= n

\* A scan that keeps the last match instead of stopping at the first.
LastMatch(lst, l) == IF Matches(lst, l) = {} THEN 0 ELSE Max(Matches(lst, l))

\* A scan without the else clause: with no match the offset stays at the
\* last entry looked at.
FirstMatchNoElse(lst, l) == IF Matches(lst, l) = {} THEN Len(lst) ELSE Min(Matches(lst, l))

\* The for/else scan of _remove: offset of the first match, 0 for none.
FirstMatch(lst, l) == IF Matches(lst, l) = {} THEN 0 ELSE Min(Matches(lst, l))

Frame(kind, op, ev, user) ==
    [kind |-> kind, op |-> op, event |-> ev, user |-> user,
     args |-> UserArgs, listener |-> None,
     pc |-> "wait", offset |-> 0, live |-> FALSE, lst |-> <<>>, cur |-> None,
     x |-> NoExc, rems |-> <<>>, ri |-> 0, adds |-> <<>>, ai |-> 0, n0 |-> 0,
     reg |-> <<>>, inv |-> <<>>]

\* The emit frame remembers the listeners registered when it was called
\* (reg) and the calls its loop has made so far (inv).
EmitFrame(ev, args, user, reg) ==
    [Frame("emit", "emit", ev, user) EXCEPT
        !.args = args, !.pc = "loop", !.live = TRUE, !.n0 = Len(reg), !.reg = reg]

\* The _on frame remembers the listeners of its event as they were when it
\* was called.
OnFrame(op, ev, l, user) ==
    [Frame("_on", op, ev, user) EXCEPT !.listener = l, !.lst = events[ev]]

RemoveFrame(ev, l, user) == [Frame("_remove", "remove", ev, user) EXCEPT !.listener = l]

Top == stack[Len(stack)]

Pop(s) == SubSeq(s, 1, Len(s) - 1)

SetTop(s, fr) == [s EXCEPT ![Len(s)] = fr]

\* User code has control: the top-level caller, or the body of the listener
\* being invoked by the innermost emit.
InListener == stack /= <<>> /\ Top.kind = "emit" /\ Top.pc = "invoke"

UserCtl == exc = NoExc /\ (stack = <<>> \/ InListener)

\* The list object the frame's for loop iterates: the list self._events[event]
\* was bound to when the loop started.
IterList(fr) == IF fr.live THEN events[fr.event] ELSE fr.lst

\* -------------------------------------------------------------- emit entry
\* emit(ev, args) called with registry evs and caller stack stk:
\* lines 194-198.  No listeners: return False to the caller at once.
EmitCall(evs, stk, ev, args, user) ==
    /\ fired' = [event |-> ev, args |-> args, found |-> evs[ev] /= <<>>]
    /\ IF evs[ev] = <<>>
       THEN /\ stack' = stk
            /\ emitting' = emitting
            /\ ret' = IF user THEN Returned("emit", ev, "False") ELSE ret
       ELSE /\ stack' = Append(stk, EmitFrame(ev, args, user, FilterBool(evs[ev])))
            /\ emitting' = Append(emitting, ev)
            /\ ret' = ret

\* ------------------------------------------------------------ public calls
\* emit(event) called by user code.
UserEmit(ev) ==
    /\ UserCtl
    /\ ops < MaxOps
    /\ ops' = ops + 1
    /\ EmitCall(events, stack, ev, UserArgs, TRUE)
    /\ UNCHANGED <<events, removals, additions, exc, nOnce, onceCalls>>

\* An _on that appends before it emits new_listener.
OnCallAppendFirst(stk, op, ev, l, user) ==
    /\ events' = [events EXCEPT ![ev] = Append(@, l)]
    /\ EmitCall(events', Append(stk, OnFrame(op, ev, l, user)),
                "new_listener", NewListenerArgs(ev, l), FALSE)

\* _on(event, listener): emit new_listener, then append (lines 105-108).
\* The registry is untouched while new_listener is dispatched; the frame
\* waits for the emit and appends in OnAppend.
OnCall(stk, op, ev, l, user) ==
    /\ events' = events
    /\ EmitCall(events, Append(stk, OnFrame(op, ev, l, user)),
                "new_listener", NewListenerArgs(ev, l), FALSE)

\* on(event, listener) called by user code (lines 110-126).
UserOn(ev, f) ==
    /\ UserCtl
    /\ ops < MaxOps
    /\ ops' = ops + 1
    /\ IF ev \notin Range(emitting)
       THEN /\ OnCall(stack, "on", ev, Plain(f), TRUE)
            /\ UNCHANGED additions
       ELSE /\ additions' = [additions EXCEPT ![ev] = Append(@, Plain(f))]
            /\ ret' = Returned("on", ev, "None")
            /\ UNCHANGED <<events, stack, emitting, fired>>
    /\ UNCHANGED <<removals, exc, nOnce, onceCalls>>

\* once(event, listener) called by user code (lines 128-144).
UserOnce(ev, f) ==
    /\ UserCtl
    /\ ops < MaxOps
    /\ ops' = ops + 1
    /\ nOnce' = nOnce + 1
    /\ IF ev \notin Range(emitting)
       THEN /\ OnCall(stack, "once", ev, Once(f, nOnce + 1), TRUE)
            /\ UNCHANGED additions
       ELSE /\ additions' = [additions EXCEPT ![ev] = Append(@, Once(f, nOnce + 1))]
            /\ ret' = Returned("once", ev, "None")
            /\ UNCHANGED <<events, stack, emitting, fired>>
    /\ UNCHANGED <<removals, exc, onceCalls>>

\* An append that puts the listener in front of the list.
OnAppendFront ==
    /\ stack /= <<>>
    /\ Top.kind = "_on"
    /\ exc = NoExc
    /\ events' = [events EXCEPT ![Top.event] = <<Top.listener>> \o @]
    /\ stack' = Pop(stack)
    /\ ret' = IF Top.user THEN Returned(Top.op, Top.event, "None") ELSE ret
    /\ UNCHANGED <<removals, additions, emitting, exc, nOnce, onceCalls, fired, ops>>

\* The append of _on after emit('new_listener') came back (line 108).
OnAppend ==
    /\ stack /= <<>>
    /\ Top.kind = "_on"
    /\ exc = NoExc
    /\ events' = [events EXCEPT ![Top.event] = Append(@, Top.listener)]
    /\ stack' = Pop(stack)
    /\ ret' = IF Top.user THEN Returned(Top.op, Top.event, "None") ELSE ret
    /\ UNCHANGED <<removals, additions, emitting, exc, nOnce, onceCalls, fired, ops>>

\* _remove(event, listener) (lines 146-163) called with caller stack stk:
\* no match returns None; a match pops the entry and emits remove_listener.
RemoveCall(stk, ev, l, user) ==
    LET i == FirstMatch(events[ev], l) IN
    IF i = 0
    THEN /\ stack' = stk
         /\ ret' = IF user THEN Returned("remove", ev, "None") ELSE ret
         /\ UNCHANGED <<events, emitting, fired>>
    ELSE /\ events' = [events EXCEPT ![ev] = RemoveAt(@, i)]
         /\ EmitCall(events', Append(stk, RemoveFrame(ev, l, user)),
                     "remove_listener", RemoveListenerArgs(ev, l), FALSE)

\* remove(event, listener) called by user code (lines 165-184).
UserRemove(ev, f) ==
    /\ UserCtl
    /\ ops < MaxOps
    /\ ops' = ops + 1
    /\ IF ev \notin Range(emitting)
       THEN /\ RemoveCall(stack, ev, Plain(f), TRUE)
            /\ UNCHANGED removals
       ELSE /\ removals' = [removals EXCEPT ![ev] = Append(@, Plain(f))]
            /\ ret' = Returned("remove", ev, "None")
            /\ UNCHANGED <<events, stack, emitting, fired>>
    /\ UNCHANGED <<additions, exc, nOnce, onceCalls>>

\* _remove returns after emit('remove_listener') came back (line 163).
RemoveDone ==
    /\ stack /= <<>>
    /\ Top.kind = "_remove"
    /\ exc = NoExc
    /\ stack' = Pop(stack)
    /\ ret' = IF Top.user THEN Returned("remove", Top.event, "None") ELSE ret
    /\ UNCHANGED <<events, removals, additions, emitting, exc, nOnce, onceCalls, fired, ops>>

\* ------------------------------------------------------------- emit loop
\* The finally clause (lines 213-217): an invoked _Once is overwritten with
\* None at its offset in the list self._events[event] is bound to now.
FinallyFails(fr) == IsOnce(fr.cur) /\ fr.offset > Len(events[fr.event])

FinallyEvents(fr) ==
    IF IsOnce(fr.cur) /\ fr.offset <= Len(events[fr.event])
    THEN [events EXCEPT ![fr.event][fr.offset] = None]
    ELSE events

\* A frame ends by raising x into its caller.  The top-level caller catches.
RaiseOut(fr, x) ==
    /\ stack' = Pop(stack)
    /\ exc' = IF Len(stack) = 1 THEN NoExc ELSE x
    /\ ret' = IF fr.user THEN Threw(fr.op, fr.event, x) ELSE ret

\* listener(*args, **kwargs): the callable and what it is called with.
Called(l, args) == [l |-> l, args |-> args]

\* for offset, listener in enumerate(self._events[event]): fetch the next
\* entry and call it (lines 199-203).  Calling None raises TypeError inside
\* the try block.
EmitLoop ==
    /\ stack /= <<>>
    /\ Top.kind = "emit"
    /\ Top.pc = "loop"
    /\ exc = NoExc
    /\ LET lst == IterList(Top)
           off == Top.offset + 1
       IN IF off > Len(lst)
          THEN /\ stack' = SetTop(stack, [Top EXCEPT !.pc = "after", !.cur = None])
               /\ UNCHANGED onceCalls
          ELSE IF lst[off] = None
          THEN /\ stack' = SetTop(stack, [Top EXCEPT !.pc = "except", !.offset = off,
                                              !.cur = None, !.x = TypeError(Top.event)])
               /\ UNCHANGED onceCalls
          ELSE /\ stack' = SetTop(stack, [Top EXCEPT !.pc = "invoke", !.offset = off,
                                              !.cur = lst[off],
                                              !.inv = Append(@, Called(lst[off], Top.args))])
               /\ onceCalls' = IF IsOnce(lst[off])
                               THEN [onceCalls EXCEPT ![lst[off].once] = @ + 1]
                               ELSE onceCalls
    /\ UNCHANGED <<events, removals, additions, emitting, exc, ret, nOnce, fired, ops>>

\* The listener body returns normally: finally, then the next iteration.
ListenerReturn ==
    /\ InListener
    /\ exc = NoExc
    /\ IF FinallyFails(Top)
       THEN /\ RaiseOut(Top, IndexError(Top.event))
            /\ UNCHANGED events
       ELSE /\ events' = FinallyEvents(Top)
            /\ stack' = SetTop(stack, [Top EXCEPT !.pc = "loop"])
            /\ UNCHANGED <<exc, ret>>
    /\ UNCHANGED <<removals, additions, emitting, nOnce, onceCalls, fired, ops>>

\* The listener body raises an exception of its own.
ListenerRaise ==
    /\ InListener
    /\ exc = NoExc
    /\ stack' = SetTop(stack, [Top EXCEPT !.pc = "except",
                                          !.x = Raised(Top.event, Top.cur.func)])
    /\ UNCHANGED <<events, removals, additions, emitting, exc, ret, nOnce, onceCalls, fired, ops>>

\* A call made by the listener body raised and the body catches it.
ListenerCatch ==
    /\ InListener
    /\ exc /= NoExc
    /\ exc' = NoExc
    /\ UNCHANGED <<events, removals, additions, emitting, stack, ret, nOnce, onceCalls, fired, ops>>

\* A call made by the listener body raised and the body lets it through.
ListenerPropagate ==
    /\ InListener
    /\ exc /= NoExc
    /\ exc' = NoExc
    /\ stack' = SetTop(stack, [Top EXCEPT !.pc = "except", !.x = exc])
    /\ UNCHANGED <<events, removals, additions, emitting, ret, nOnce, onceCalls, fired, ops>>

\* except Exception as exc (lines 205-211): re-raise for the error event or
\* when nobody listens for errors, otherwise emit('error', event, exc).
Reraises(fr) == fr.event = "error" \/ events["error"] = <<>>

EmitExcept ==
    /\ stack /= <<>>
    /\ Top.kind = "emit"
    /\ Top.pc = "except"
    /\ IF Reraises(Top)
       THEN /\ RaiseOut(Top, IF FinallyFails(Top) THEN IndexError(Top.event) ELSE Top.x)
            /\ events' = FinallyEvents(Top)
            /\ UNCHANGED <<emitting, fired>>
       ELSE /\ EmitCall(events, SetTop(stack, [Top EXCEPT !.pc = "error"]),
                        "error", ErrorArgs(Top.event, Top.x), FALSE)
            /\ UNCHANGED <<events, exc>>
    /\ UNCHANGED <<removals, additions, nOnce, onceCalls, ops>>

\* emit('error', ...) came back normally: finally, then the next iteration.
EmitErrorDone ==
    /\ stack /= <<>>
    /\ Top.kind = "emit"
    /\ Top.pc = "error"
    /\ exc = NoExc
    /\ IF FinallyFails(Top)
       THEN /\ RaiseOut(Top, IndexError(Top.event))
            /\ UNCHANGED events
       ELSE /\ events' = FinallyEvents(Top)
            /\ stack' = SetTop(stack, [Top EXCEPT !.pc = "loop", !.x = NoExc])
            /\ UNCHANGED <<exc, ret>>
    /\ UNCHANGED <<removals, additions, emitting, nOnce, onceCalls, fired, ops>>

\* emit('error', ...) raised: finally, then the exception leaves emit.
EmitErrorRaise ==
    /\ stack /= <<>>
    /\ Top.kind = "emit"
    /\ Top.pc = "error"
    /\ exc /= NoExc
    /\ RaiseOut(Top, IF FinallyFails(Top) THEN IndexError(Top.event) ELSE exc)
    /\ events' = FinallyEvents(Top)
    /\ UNCHANGED <<removals, additions, emitting, nOnce, onceCalls, fired, ops>>

\* After the loop (lines 219-224): rebind self._events[event] to the filtered
\* list, pop the emission stack, and take the queues if the event left it.
\* Loops still iterating the list that was bound before keep that list.
Freeze(fr, ev) ==
    IF fr.kind = "emit" /\ fr.event = ev /\ fr.live
    THEN [fr EXCEPT !.live = FALSE, !.lst = events[ev]]
    ELSE fr

EmitAfter ==
    /\ stack /= <<>>
    /\ Top.kind = "emit"
    /\ Top.pc = "after"
    /\ LET ev == Top.event
           flush == ev \notin Range(Pop(emitting))
           done == [Top EXCEPT !.pc = "flush", !.live = FALSE, !.lst = <<>>,
                               !.offset = 0,
                               !.rems = IF flush THEN removals[ev] ELSE <<>>,
                               !.adds = IF flush THEN additions[ev] ELSE <<>>]
       IN /\ events' = [events EXCEPT ![ev] = FilterBool(@)]
          /\ emitting' = Pop(emitting)
          /\ removals' = IF flush THEN [removals EXCEPT ![ev] = <<>>] ELSE removals
          /\ additions' = IF flush THEN [additions EXCEPT ![ev] = <<>>] ELSE additions
          /\ stack' = [i \in 1..Len(stack) |->
                          IF i = Len(stack) THEN done ELSE Freeze(stack[i], ev)]
    /\ UNCHANGED <<exc, ret, nOnce, onceCalls, fired, ops>>

\* A flush that applies the queued additions before the queued removals.
EmitFlushAddsFirst ==
    /\ stack /= <<>>
    /\ Top.kind = "emit"
    /\ Top.pc = "flush"
    /\ exc = NoExc
    /\ IF Top.ai < Len(Top.adds)
       THEN /\ OnCall(SetTop(stack, [Top EXCEPT !.ai = @ + 1]),
                      "on", Top.event, Top.adds[Top.ai + 1], FALSE)
       ELSE IF Top.ri < Len(Top.rems)
       THEN /\ RemoveCall(SetTop(stack, [Top EXCEPT !.ri = @ + 1]),
                          Top.event, Top.rems[Top.ri + 1], FALSE)
       ELSE /\ stack' = Pop(stack)
            /\ ret' = IF Top.user THEN Returned("emit", Top.event, "True") ELSE ret
            /\ UNCHANGED <<events, emitting, fired>>
    /\ UNCHANGED <<removals, additions, exc, nOnce, onceCalls, ops>>

\* The flush loops (lines 225-233): every taken removal through _remove,
\* then every taken addition through _on, then return True.
EmitFlush ==
    /\ stack /= <<>>
    /\ Top.kind = "emit"
    /\ Top.pc = "flush"
    /\ exc = NoExc
    /\ IF Top.ri < Len(Top.rems)
       THEN /\ RemoveCall(SetTop(stack, [Top EXCEPT !.ri = @ + 1]),
                          Top.event, Top.rems[Top.ri + 1], FALSE)
       ELSE IF Top.ai < Len(Top.adds)
       THEN /\ OnCall(SetTop(stack, [Top EXCEPT !.ai = @ + 1]),
                      "on", Top.event, Top.adds[Top.ai + 1], FALSE)
       ELSE /\ stack' = Pop(stack)
            /\ ret' = IF Top.user THEN Returned("emit", Top.event, "True") ELSE ret
            /\ UNCHANGED <<events, emitting, fired>>
    /\ UNCHANGED <<removals, additions, exc, nOnce, onceCalls, ops>>

\* An exception raised under _on, _remove or the flush loops is not handled
\* there: it leaves the frame.
Unwind ==
    /\ stack /= <<>>
    /\ exc /= NoExc
    /\ Top.kind \in {"_on", "_remove"} \/ (Top.kind = "emit" /\ Top.pc = "flush")
    /\ RaiseOut(Top, exc)
    /\ UNCHANGED <<events, removals, additions, emitting, nOnce, onceCalls, fired, ops>>

\* ----------------------------------------------------------------- queries
\* listeners(event) (lines 80-92): the raw callable of every entry of the
\* list, in order.
listeners(ev) == [i \in 1..Len(events[ev]) |-> Raw(events[ev][i])]

\* listeners_count(event) (lines 94-103): the length of the list.
listeners_count(ev) == Len(events[ev])

\* ------------------------------------------------------------------ claims
\* Frames of the call stack that are dispatches of ev.
Dispatching(ev) == {i \in 1..Len(stack) : stack[i].kind = "emit" /\ stack[i].event = ev}

\* The _Once object id is being called, or its call has not been cleaned up
\* by the finally clause yet.
InCall(id) ==
    \E i \in 1..Len(stack) :
        /\ stack[i].kind = "emit"
        /\ stack[i].pc \in {"invoke", "except", "error"}
        /\ stack[i].cur.once = id

RegisteredIn(evs, id) == \E ev \in Events : \E i \in 1..Len(evs[ev]) : evs[ev][i].once = id

Registered(id) == RegisteredIn(events, id)

\* C1: a listener registered with once(E, L) is invoked at most once, also
\* when emit(E) is reentered from a listener of E, and once its single
\* invocation is over it is no longer among the listeners of any event.
C1_OnceInvokedOnce ==
    \A id \in 1..nOnce :
        /\ onceCalls[id] <= 1
        /\ (onceCalls[id] >= 1 /\ ~InCall(id)) => ~Registered(id)


\* The exception x left the frame fr, which was the top frame, and reached
\* the code that called it.
Escaped(fr, x) ==
    /\ stack' = Pop(stack)
    /\ IF Len(stack) = 1 THEN ret' = Threw(fr.op, fr.event, x) ELSE exc' = x

\* C2: on(E, L) or once(E, L) called while E is on the emission stack leaves
\* the listeners of E as they are, and once no dispatch of E is running any
\* more the request has been applied through the addition path.
C2_DeferredAddApplied ==
    [][\A ev \in Events :
        /\ Len(additions'[ev]) > Len(additions[ev]) => events' = events
        /\ Dispatching(ev)' = {} => additions'[ev] = <<>>]_vars

\* C3: remove(E, L) called while E is on the emission stack leaves the
\* listeners of E as they are, a queued removal is applied only when E is off
\* the emission stack, and once no dispatch of E is running any more the
\* removal has been applied.
C3_DeferredRemoveApplied ==
    [][\A ev \in Events :
        /\ Len(removals'[ev]) > Len(removals[ev]) => events' = events
        /\ Len(removals'[ev]) < Len(removals[ev]) => ev \notin Range(emitting')
        /\ Dispatching(ev)' = {} => removals'[ev] = <<>>]_vars

\* C4: emit(E) returns True only if a listener was registered for E when it
\* was called, and with no listener registered it returns False at once and
\* touches neither the registry, the queues nor the emission stack.
C4_EmitReturnsWhetherListeners ==
    [][/\ \A ev \in EmitInputs :
            UserEmit(ev) =>
                IF FilterBool(events[ev]) = <<>>
                THEN /\ ret' = Returned("emit", ev, "False")
                     /\ UNCHANGED <<events, removals, additions, emitting, stack, onceCalls>>
                ELSE /\ stack' = Append(stack, Top')
                     /\ Top'.kind = "emit"
       /\ (EmitFlush /\ stack' = Pop(stack)) => Top.n0 > 0]_vars

\* C5: an exception raised by a listener of E, when E is "error" or nobody
\* listens for "error", leaves emit(E) as that same exception and ends the
\* dispatch.
C5_ListenerExceptionPropagates ==
    [][(EmitExcept /\ Top.cur /= None /\ Reraises(Top)) => Escaped(Top, Top.x)]_vars

\* C6: an exception X raised by a listener of a non-"error" event E while
\* "error" has listeners starts one dispatch of "error" with (E, X); when
\* that dispatch returns normally nothing is propagated and the dispatch of
\* E goes on with its next listener.
C6_ErrorRouted ==
    [][/\ (EmitExcept /\ Top.cur /= None /\ ~Reraises(Top)) =>
            /\ Len(stack') = Len(stack) + 1
            /\ Top'.event = "error"
            /\ Top'.args = ErrorArgs(Top.event, Top.x)
       /\ EmitErrorDone =>
            /\ exc' = NoExc
            /\ stack' = SetTop(stack, [Top EXCEPT !.pc = "loop", !.x = NoExc])]_vars

\* C7: an exception raised by an "error" listener starts no further "error"
\* dispatch and leaves both the "error" dispatch and the emit(E) that routed
\* to it unchanged.
C7_ErrorListenerExceptionEscapes ==
    [][/\ (EmitExcept /\ Top.cur /= None /\ Top.event = "error") => Escaped(Top, Top.x)
       /\ EmitErrorRaise => Escaped(Top, exc)]_vars

NoMatch(lst, l) == \A k \in 1..Len(lst) : Raw(lst[k]) /= l

\* C9: remove(E, L) with E off the emission stack and L registered removes
\* exactly the earliest entry whose raw callable is L, keeps every other
\* entry in its order, and then dispatches remove_listener with (E, L).
C9_RemoveEarliestMatch ==
    [][\A p \in RemoveInputs :
        LET ev == p[1]
            l == Plain(p[2])
            old == events[ev]
            new == events'[ev]
        IN (UserRemove(ev, p[2]) /\ ev \notin Range(emitting) /\ ~NoMatch(old, l)) =>
            \E k \in 1..Len(old) :
                /\ Raw(old[k]) = l
                /\ \A j \in 1..(k - 1) : Raw(old[j]) /= l /\ new[j] = old[j]
                /\ Len(new) = Len(old) - 1
                /\ \A j \in (k + 1)..Len(old) : new[j - 1] = old[j]
                /\ \A o \in Events \ {ev} : events'[o] = events[o]
                /\ fired' = [event |-> "remove_listener",
                             args |-> RemoveListenerArgs(ev, l),
                             found |-> events'["remove_listener"] /= <<>>]]_vars

\* remove has just returned after removing an entry of "e" whose later
\* duplicate is still registered.
C9_Witness ==
    /\ stack = <<>>
    /\ ret = Returned("remove", "e", "None")
    /\ fired.event = "remove_listener"
    /\ fired.args.ev = "e"
    /\ ~NoMatch(events["e"], fired.args.l)

\* C10: remove(E, L) with no entry of E equal to L changes nothing, raises
\* nothing and dispatches no remove_listener, when called directly and when
\* applied by the flush.
C10_RemoveMissingIsNoop ==
    [][/\ \A p \in RemoveInputs :
            (/\ UserRemove(p[1], p[2])
             /\ p[1] \notin Range(emitting)
             /\ NoMatch(events[p[1]], Plain(p[2]))) =>
                /\ ret' = Returned("remove", p[1], "None")
                /\ UNCHANGED <<events, removals, additions, emitting, stack, exc, fired>>
       /\ (/\ EmitFlush
           /\ Top.ri < Len(Top.rems)
           /\ NoMatch(events[Top.event], Top.rems[Top.ri + 1])) =>
                /\ stack' = SetTop(stack, [Top EXCEPT !.ri = @ + 1])
                /\ UNCHANGED <<events, removals, additions, emitting, exc, fired, ret>>]_vars

\* The flush of "e" has gone past a queued removal that matches no listener
\* of "e" while "e" has listeners, and no remove_listener was dispatched.
C10_Witness ==
    /\ stack /= <<>>
    /\ Top.kind = "emit"
    /\ Top.pc = "flush"
    /\ Top.ri >= 1
    /\ events[Top.event] /= <<>>
    /\ NoMatch(events[Top.event], Top.rems[Top.ri])
    /\ fired.event /= "remove_listener"

\* The calls a dispatch with arguments args owes to the listeners reg.
Owed(reg, args) == [k \in 1..Len(reg) |-> Called(reg[k], args)]

\* C11: an emit call that returns True has called every listener that was
\* registered for its event when it was called exactly once, in registration
\* order, with the arguments of the emit call.
C11_DispatchCallsEveryListener ==
    [][(EmitFlush /\ stack' = Pop(stack)) => Top.inv = Owed(Top.reg, Top.args)]_vars

\* The ordinary listeners of a list, in order.
IsPlain(l) == l /= None /\ ~IsOnce(l)

Ordinary(lst) == SelectSeq(lst, IsPlain)

\* The steps of emit that write to the registry: the finally clause and the
\* filter after the loop.
EmitWrites == ListenerReturn \/ EmitExcept \/ EmitErrorDone \/ EmitErrorRaise \/ EmitAfter

\* C12: a dispatch removes from the registry only fire-once entries: no step
\* of emit itself changes the ordinary listeners of any event or their order,
\* also when listeners of E reentered emit(E) during the dispatch.
C12_DispatchKeepsOrdinary ==
    [][EmitWrites => \A ev \in Events : Ordinary(events'[ev]) = Ordinary(events[ev])]_vars

\* on or once, called by user code with its event off the emission stack,
\* returns to its caller.
OnReturns ==
    /\ stack /= <<>>
    /\ Top.kind = "_on"
    /\ Top.user
    /\ stack' = Pop(stack)
    /\ ret' = Returned(Top.op, Top.event, "None")

\* C13 as stated: when on(E, L), called with E off the emission stack,
\* returns, listeners_count(E) is exactly 1 higher than before the call and L
\* is the last entry of E.
C13_CountOneHigherThanBeforeCall ==
    [][OnReturns =>
        /\ Len(events'[Top.event]) = Len(Top.lst) + 1
        /\ events'[Top.event][Len(events'[Top.event])] = Top.listener]_vars

\* C13 amended: when on(E, L), called with E off the emission stack, returns,
\* the listeners of E are those registered when its new_listener dispatch
\* ended followed by L as the last entry, so listeners_count(E) is 1 higher
\* than before the call whenever the new_listener listeners left E alone; no
\* other event changes, and a fire-once L has not been invoked.
C13_OnAppendsLast ==
    [][OnReturns =>
        /\ events'[Top.event] = Append(events[Top.event], Top.listener)
        /\ \A o \in Events \ {Top.event} : events'[o] = events[o]
        /\ events[Top.event] = Top.lst => Len(events'[Top.event]) = Len(Top.lst) + 1
        /\ IsOnce(Top.listener) => onceCalls'[Top.listener.once] = 0]_vars

\* on("e", g) has just returned with g as the second listener of "e" while
\* a new_listener listener is registered.
C13_Witness ==
    /\ stack = <<>>
    /\ ret = Returned("on", "e", "None")
    /\ events["new_listener"] /= <<>>
    /\ fired = [event |-> "new_listener", args |-> NewListenerArgs("e", Plain("g")),
                found |-> TRUE]
    /\ Len(events["e"]) = 2
    /\ events["e"][2] = Plain("g")

\* An entry that is a registered listener: not a tombstone, and not a
\* fire-once listener whose invocation is over.
StillRegistered(l) == l /= None /\ (IsOnce(l) => (onceCalls[l.once] = 0 \/ InCall(l.once)))

RegisteredFor(ev) == SelectSeq(events[ev], StillRegistered)

\* C14: wherever user code can query the emitter, listeners_count(E) is the
\* number of listeners registered for E and listeners(E) yields exactly their
\* raw callables in registration order.
C14_QueriesSeeRegistered ==
    UserCtl =>
        \A ev \in Events :
            /\ listeners_count(ev) = Len(RegisteredFor(ev))
            /\ listeners(ev) = [i \in 1..Len(RegisteredFor(ev)) |-> Raw(RegisteredFor(ev)[i])]

\* An emit called by the listener that frame i is invoking, for another
\* event than the one frame i dispatches, returns True to that listener.
NestedReturn(i) ==
    /\ EmitFlush
    /\ stack' = Pop(stack)
    /\ Len(stack) = i + 1
    /\ Top.user
    /\ stack[i].kind = "emit"
    /\ stack[i].pc = "invoke"
    /\ stack[i].event /= Top.event

\* C15: when a listener calls emit for a different event, the nested dispatch
\* has invoked all listeners of the nested event when it returns, the outer
\* listener resumes where it was, and the outer dispatch can go on: the entry
\* it is invoking is still at its offset in the list of its event.
C15_NestedEmitOtherEvent ==
    [][\A i \in 1..(Len(stack) - 1) :
        NestedReturn(i) =>
            /\ Top.inv = Owed(Top.reg, Top.args)
            /\ stack'[i] = stack[i]
            /\ stack[i].offset <= Len(events'[stack[i].event])
            /\ events'[stack[i].event][stack[i].offset] = stack[i].cur]_vars

\* The dispatches in progress: the emit frames that have not yet popped the
\* emission stack, outermost first.
InLoop(fr) == fr.kind = "emit" /\ fr.pc /= "flush"

DispatchEvents == [i \in 1..Len(SelectSeq(stack, InLoop)) |-> SelectSeq(stack, InLoop)[i].event]

\* C16: the emission stack holds exactly the events of the dispatches in
\* progress, so it is empty whenever no emit call is in progress, also after
\* emit calls that ended by raising.
C16_EmittingMatchesDispatches == emitting = DispatchEvents

\* No emit call is in progress on the emitter.
NoEmitInProgress == \A i \in 1..Len(stack) : stack[i].kind /= "emit"

\* C17: every request buffered during a dispatch is applied by the end of
\* the outermost emit call during which it was issued: whenever no emit call
\* is in progress, both pending queues are empty for every event.
C17_QueuesEmptyWhenIdle ==
    NoEmitInProgress => \A ev \in Events : removals[ev] = <<>> /\ additions[ev] = <<>>

\* The frame a flush step has put on top of the flushing emit frame.
Pushed == stack'[Len(stack) + 1]

OwnFailure(x) == x.type \in {"TypeError", "IndexError"}

\* C19: the only exceptions that ever arise in or escape emit are those
\* raised by a listener's body: the emitter never calls a tombstoned slot and
\* never writes a tombstone outside the listener list.
C19_EmitterNeverFails ==
    /\ ~OwnFailure(exc)
    /\ ~OwnFailure(ret.x)
    /\ \A i \in 1..Len(stack) : ~OwnFailure(stack[i].x)

\* C20: for on and once, on the immediate and on the flushed path, the
\* new_listener listeners are invoked with (E, L) where E is the event of the
\* registration and L is the callable the caller passed, the value
\* listeners(E) yields for the entry and remove(E, L) matches.
C20_NewListenerGetsCallable ==
    \A i \in 2..Len(stack) :
        (stack[i].kind = "emit" /\ stack[i].args.tag = "new_listener") =>
            /\ stack[i - 1].kind = "_on"
            /\ stack[i].args.ev = stack[i - 1].event
            /\ stack[i].args.l = Raw(stack[i - 1].listener)

Init ==
    /\ events = [ev \in Events |-> <<>>]
    /\ removals = [ev \in Events |-> <<>>]
    /\ additions = [ev \in Events |-> <<>>]
    /\ emitting = <<>>
    /\ stack = <<>>
    /\ exc = NoExc
    /\ ret = NoRet
    /\ nOnce = 0
    /\ onceCalls = [i \in 1..MaxOps |-> 0]
    /\ fired = [event |-> "", args |-> UserArgs, found |-> FALSE]
    /\ ops = 0

Next ==
    \/ \E ev \in EmitInputs : UserEmit(ev)
    \/ \E p \in OnInputs : UserOn(p[1], p[2])
    \/ \E p \in OnceInputs : UserOnce(p[1], p[2])
    \/ \E p \in RemoveInputs : UserRemove(p[1], p[2])
    \/ OnAppend
    \/ RemoveDone
    \/ EmitLoop
    \/ ListenerReturn
    \/ ListenerRaise
    \/ ListenerCatch
    \/ ListenerPropagate
    \/ EmitExcept
    \/ EmitErrorDone
    \/ EmitErrorRaise
    \/ EmitAfter
    \/ EmitFlush
    \/ Unwind

Spec == Init /\ [][Next]_vars

\* The emitter of an application that listens for errors: the state after
\* Emitter() and on('error', f).
InitErr ==
    /\ events = [ev \in Events |-> IF ev = "error" THEN <<Plain("f")>> ELSE <<>>]
    /\ removals = [ev \in Events |-> <<>>]
    /\ additions = [ev \in Events |-> <<>>]
    /\ emitting = <<>>
    /\ stack = <<>>
    /\ exc = NoExc
    /\ ret = Returned("on", "error", "None")
    /\ nOnce = 0
    /\ onceCalls = [i \in 1..MaxOps |-> 0]
    /\ fired = [event |-> "new_listener", args |-> NewListenerArgs("error", Plain("f")),
                found |-> FALSE]
    /\ ops = 0

SpecErr == InitErr /\ [][Next]_vars
====
